---- MODULE Spec2Model ----
(***************************************************************************)
(* A model of the NSGA-II maintenance-plan optimiser of net_flow_opt:      *)
(* core/scheduler.py (Activity, Group, Plan) and core/moga.py (Individual, *)
(* MOGA).                                                                  *)
(*                                                                         *)
(* Conventions.                                                            *)
(*  - Python floats are fixed-point integers: the real number v is the     *)
(*    integer v * UnitsPerOne, products and quotients round to the nearest *)
(*    unit.  The unit is the Newton tolerance 1e-3 of Group.minimize.      *)
(*  - Indices are 0-based as in the source: components, group slots and    *)
(*    resources are 0..N-1, 0..N-1 and 0..resources-1.                     *)
(*  - Individuals are objects: `individuals` is the heap (every Individual *)
(*    constructed so far) and P, Q, fronts, population_history hold        *)
(*    references (indices into the heap), so that two lists holding the    *)
(*    same object see each other's updates of rank and crowding distance.  *)
(*  - core/system.py is not part of the sources at hand: System (N,        *)
(*    resources, regular_flow, structure, from_node_to_edge_capacity) and  *)
(*    the max-flow primitive follow the written specification.  plan.N in  *)
(*    moga.py is the component count system.N.                             *)
(***************************************************************************)
EXTENDS Integers, Sequences, FiniteSets, TLC

(***************************************************************************)
(* Bounds of the model.                                                    *)
(***************************************************************************)
MaxN == 2
MaxRes == 2
MaxPop == 2
MaxIndividuals == 4
MaxSortPop == 3
MaxSelectPop == 2
MaxGenerateN == 3
MaxScore == 3
MaxGroup == 3
MaxLineage == 3

(***************************************************************************)
(* Fixed-point arithmetic.                                                 *)
(***************************************************************************)
UnitsPerOne == 1000

Tolerance == UnitsPerOne \div 1000

InitialDiff == 100000 * UnitsPerOne

Round(a, b) ==
    IF b > 0 THEN (2 * a + b) \div (2 * b) ELSE (2 * (0 - a) - b) \div (2 * (0 - b))

FMul(a, b) == Round(a * b, UnitsPerOne)

FDiv(a, b) == Round(a * UnitsPerOne, b)

RECURSIVE FPowNat(_, _)
FPowNat(x, n) == IF n = 0 THEN UnitsPerOne ELSE FMul(x, FPowNat(x, n - 1))

FPow(x, n) == IF n >= 0 THEN FPowNat(x, n) ELSE FDiv(UnitsPerOne, FPowNat(x, 0 - n))

Abs(a) == IF a < 0 THEN 0 - a ELSE a

RECURSIVE SumOver(_, _)
SumOver(f, S) ==
    IF S = {} THEN 0
    ELSE LET e == CHOOSE e \in S : TRUE IN f[e] + SumOver(f, S \ {e})

RECURSIVE SumSeq(_)
SumSeq(s) == IF s = <<>> THEN 0 ELSE Head(s) + SumSeq(Tail(s))

MaxOf(S) == CHOOSE m \in S : \A e \in S : e <= m

MinOf(S) == CHOOSE m \in S : \A e \in S : m <= e

(***************************************************************************)
(* scheduler.py: Activity.  An activity is [component, t, d]; a component  *)
(* is [idx, cp, cc, alpha, beta, x_star, phi_star, capacity].              *)
(***************************************************************************)
expectedCost(a, x) ==
    a.component.cp
      + FMul(a.component.cc, FPow(FDiv(x, a.component.alpha), a.component.beta))

h(a, delta_t) ==
    expectedCost(a, a.component.x_star + delta_t)
      - expectedCost(a, a.component.x_star)
      - FMul(delta_t, a.component.phi_star)

dh(a, delta_t) ==
    FMul(FMul(a.component.cc, FPow(a.component.alpha, 0 - a.component.beta)),
         FPow(a.component.x_star + delta_t, a.component.beta - 1))
       * a.component.beta
      - a.component.phi_star

ddh(a, delta_t) ==
    FMul(FMul(a.component.cc, FPow(a.component.alpha, 0 - a.component.beta))
           * a.component.beta * (a.component.beta - 1),
         FPow(a.component.x_star + delta_t, a.component.beta - 2))

(***************************************************************************)
(* scheduler.py: Group.  A group's activities are a sequence of activity   *)
(* records (self.activities).                                              *)
(***************************************************************************)
H(activities, x) == SumSeq([k \in 1..Len(activities) |-> h(activities[k], x - activities[k].t)])

dH(activities, x) == SumSeq([k \in 1..Len(activities) |-> dh(activities[k], x - activities[k].t)])

ddH(activities, x) == SumSeq([k \in 1..Len(activities) |-> ddh(activities[k], x - activities[k].t)])

is_feasible(activities) ==
    LET earliest_start ==
            MaxOf({activities[k].t - activities[k].component.x_star : k \in 1..Len(activities)})
    IN  \A k \in 1..Len(activities) :
            ~(activities[k].t + activities[k].component.x_star < earliest_start)

\* Line 98: the initial guess, the mean of the members' dates.
InitialGuess(activities) ==
    Round(SumSeq([k \in 1..Len(activities) |-> activities[k].t]), Len(activities))

\* Line 101: one Newton step from the last iterate.
NewtonStep(activities, xlast) ==
    xlast - FDiv(dH(activities, xlast), ddH(activities, xlast))

\* Line 100: the loop condition.
LoopCondition(diff) == diff > Tolerance

\* Line 102: the difference of the last two iterates.
IterateDiff(x) == x[Len(x) - 1] - x[Len(x)]

\* Lines 100-102: the while loop, from the list x and the current diff.
RECURSIVE NewtonLoop(_, _, _)
NewtonLoop(activities, x, diff) ==
    IF LoopCondition(diff)
    THEN LET x1 == Append(x, NewtonStep(activities, x[Len(x)]))
         IN  NewtonLoop(activities, x1, IterateDiff(x1))
    ELSE x

\* Lines 98-107: the iterates, the group's IC and the rewritten activities.
minimize(activities) ==
    LET x == NewtonLoop(activities, <<InitialGuess(activities)>>, InitialDiff)
        last == x[Len(x)]
    IN  [x |-> x,
         IC |-> H(activities, last),
         activities |-> [k \in 1..Len(activities) |-> [activities[k] EXCEPT !.t = last]]]

(***************************************************************************)
(* System (core/system.py, modelled from the written specification): a     *)
(* flow graph from the source s to the sink t whose other nodes are the    *)
(* components.  structure is the set of directed edges; a component node's *)
(* capacity bounds the flow through it.                                    *)
(***************************************************************************)
SourceNode == 0 - 1

SinkNode == 0 - 2

RECURSIVE Reachable(_, _, _)
Reachable(from, edges, nodes) ==
    LET next == from \cup {e[2] : e \in {e \in edges : e[1] \in from /\ e[2] \in nodes}}
    IN  IF next = from THEN from ELSE Reachable(next, edges, nodes)

\* from_node_to_edge_capacity followed by the max-flow primitive, on the
\* structure restricted to the component nodes `active`: by max-flow/min-cut
\* the least total capacity of a set of active components whose removal
\* disconnects t from s.
maximum_flow_value(system, active) ==
    LET cuts == {C \in SUBSET active :
                    SinkNode \notin Reachable({SourceNode}, system.structure,
                                              (active \ C) \cup {SinkNode})}
    IN  MinOf({SumOver(system.capacity, C) : C \in cuts})

(***************************************************************************)
(* scheduler.py: Plan.  activities is a function 0..N-1 -> activity (the   *)
(* list self.activities); a grouping structure is the tensor               *)
(* x[i][j][r] \in {0, 1}, component i in slot j on resource r.             *)
(***************************************************************************)
\* np.sum(grouping_structure, axis=-1) at [i, j].
Squeeze(x, i, j) == SumOver(x[i][j], DOMAIN x[i][j])

\* Lines 188-199: the loop over the columns, from column j on.
RECURSIVE set_dates_from(_, _, _, _, _)
set_dates_from(activities, system, x, IC, j) ==
    IF j >= system.N THEN [activities |-> activities, IC |-> IC]
    ELSE IF \A i \in 0..(system.N - 1) : Squeeze(x, i, j) = 0
         THEN set_dates_from(activities, system, x, IC, j + 1)
         ELSE LET members == {i \in 0..(system.N - 1) : Squeeze(x, i, j) = 1}
                  order == [k \in 1..Cardinality(members) |->
                               CHOOSE i \in members :
                                   Cardinality({m \in members : m < i}) = k - 1]
                  g == minimize([k \in 1..Len(order) |-> activities[order[k]]])
                  moved == [i \in 0..(system.N - 1) |->
                               IF i \in members
                               THEN [activities[i] EXCEPT !.t = g.x[Len(g.x)]]
                               ELSE activities[i]]
              IN  set_dates_from(moved, system, x, IC + g.IC, j + 1)

set_dates(activities, system, x) == set_dates_from(activities, system, x, 0, 0)

\* sort(key=date): insertion of one date into an ascending list.
RECURSIVE InsertSorted(_, _)
InsertSorted(s, v) ==
    IF s = <<>> THEN <<v>>
    ELSE IF v < Head(s) THEN <<v>> \o s
         ELSE <<Head(s)>> \o InsertSorted(Tail(s), v)

RECURSIVE SortAscending(_)
SortAscending(s) ==
    IF s = <<>> THEN <<>> ELSE InsertSorted(SortAscending(Tail(s)), Head(s))

\* InactiveAt with >= for > in line 239.
InactiveAtClosed(activities, date) ==
    {activities[i].component.idx :
        i \in {i \in DOMAIN activities :
                  activities[i].t + activities[i].d >= date /\ activities[i].t <= date}}

\* Lines 237-241: the components that are not active at an event date.
InactiveAt(activities, date) ==
    {activities[i].component.idx :
        i \in {i \in DOMAIN activities :
                  activities[i].t + activities[i].d > date /\ activities[i].t <= date}}

\* Lines 224-249 and 270-277: the sorted events, each with the max flow of
\* the structure without its inactive nodes.
generate_flow_history(activities, system) ==
    LET n == system.N
        dates == SortAscending(
                     [k \in 1..(2 * n + 1) |->
                         IF k <= n THEN activities[k - 1].t
                         ELSE IF k <= 2 * n
                              THEN activities[k - n - 1].t + activities[k - n - 1].d
                              ELSE 0])
    IN  [k \in 1..Len(dates) |->
            [date |-> dates[k],
             flow |-> maximum_flow_value(
                          system, (0..(n - 1)) \ InactiveAt(activities, dates[k]))]]

evaluate_flow_reduction(activities, system) ==
    LET history == generate_flow_history(activities, system)
    IN  SumSeq([i \in 1..(Len(history) - 1) |->
                   (system.regular_flow - history[i].flow)
                     * (history[i + 1].date - history[i].date)])

\* Plan.__init__ with a grouping structure (lines 121-133).
Plan(activities, system, grouping_structure) ==
    LET dated == set_dates(activities, system, grouping_structure)
    IN  [activities |-> dated.activities,
         IC |-> dated.IC,
         LF |-> evaluate_flow_reduction(dated.activities, system),
         grouping_structure |-> grouping_structure]

(***************************************************************************)
(* moga.py: Individual.                                                    *)
(***************************************************************************)
Infinity == 1000000 * UnitsPerOne

\* Individual.__init__ (lines 21-27).  dominatorCounter and
\* dominatedSolutions are the attributes the sort works on (lines 288-290).
Individual(plan) ==
    [plan |-> plan,
     dominated_solutions |-> <<>>,
     dominator_counter |-> 0,
     rank |-> 0,
     score |-> <<plan.LF, plan.IC>>,
     crowding_distance |-> 0,
     dominatorCounter |-> 0,
     dominatedSolutions |-> <<>>]

\* np.random.rand() < p_mutation for the draws rand can return in [0, 1).
RandSamples == {0, UnitsPerOne \div 2, UnitsPerOne - 1}

\* Line 48: np.flatnonzero(np.sum(x[i, :, :], axis=0))[0].  The sum over
\* axis 0 of the (slot, resource) matrix of component i runs over the slots,
\* so the index found is the one of the resource holding the component.
g_id(x, i) ==
    MinOf({r \in DOMAIN x[i][0] : SumOver([j \in DOMAIN x[i] |-> x[i][j][r]], DOMAIN x[i]) /= 0})

\* np.sum(x[:, j, :]).
SlotSize(x, j) == SumOver([i \in DOMAIN x |-> Squeeze(x, i, j)], DOMAIN x)

\* CandidateGroups with <= for < in the screen of line 53.
CandidateGroupsUpToFull(x, i, system) ==
    {j \in DOMAIN x[i] : j /= g_id(x, i) /\ SlotSize(x, j) <= system.resources}

\* Lines 49-55: the slots screened on the number of resources.
CandidateGroups(x, i, system) ==
    {j \in DOMAIN x[i] : j /= g_id(x, i) /\ SlotSize(x, j) < system.resources}

\* Lines 59-63: the activities of slot j, in component order, then activity i.
GroupWith(x, i, j, activities) ==
    LET members == {c \in DOMAIN x : Squeeze(x, c, j) /= 0}
        order == [k \in 1..Cardinality(members) |->
                     CHOOSE c \in members : Cardinality({m \in members : m < c}) = k - 1]
    IN  [k \in 1..Len(order) |-> activities[order[k]]] \o <<activities[i]>>

\* Lines 57-66: the candidates screened on feasibility.
FeasibleGroups(x, i, individual, system) ==
    {j \in CandidateGroups(x, i, system) :
        is_feasible(GroupWith(x, i, j, individual.plan.activities))}

\* SetAllele with the assignment of line 69 lost: the row is cleared only.
SetAlleleCleared(x, i, j, r) ==
    [x EXCEPT ![i] = [jj \in DOMAIN x[i] |-> [rr \in DOMAIN x[i][jj] |-> 0]]]

\* Lines 67-71: the row of component i replaced by the allele (j, r).
SetAllele(x, i, j, r) ==
    [x EXCEPT ![i] = [jj \in DOMAIN x[i] |->
                         [rr \in DOMAIN x[i][jj] |-> IF jj = j /\ rr = r THEN 1 ELSE 0]]]

\* Lines 45-71: the tensors the loop over the components can end with, from
\* component i on; np.random.choice raises ValueError on an empty list.
RECURSIVE mutate_from(_, _, _, _, _)
mutate_from(individual, system, p_mut, x, i) ==
    IF i >= system.N THEN {[error |-> "none", x |-> x]}
    ELSE (IF \E u \in RandSamples : ~(u < p_mut)
          THEN mutate_from(individual, system, p_mut, x, i + 1)
          ELSE {})
         \cup
         (IF \E u \in RandSamples : u < p_mut
          THEN LET f == FeasibleGroups(x, i, individual, system)
               IN  IF f = {} THEN {[error |-> "ValueError"]}
                   ELSE UNION {mutate_from(individual, system, p_mut,
                                           SetAllele(x, i, jr[1], jr[2]), i + 1) :
                                  jr \in f \X (0..(system.resources - 1))}
          ELSE {})

\* Individual.mutate (lines 44-79): the offspring it can return, or the error.
mutate(individual, system, p_mut) ==
    {IF o.error = "none"
     THEN [error |-> "none",
           individual |-> Individual(Plan(individual.plan.activities, system, o.x))]
     ELSE o :
        o \in mutate_from(individual, system, p_mut, individual.plan.grouping_structure, 0)}

(***************************************************************************)
(* moga.py: MOGA.generate_individual and the initial population.           *)
(***************************************************************************)
\* np.delete(a, k), k counted from 1.
Delete(a, k) == SubSeq(a, 1, k - 1) \o SubSeq(a, k + 1, Len(a))

\* Lines 175-181: the date ranges of the components of a slot are compatible.
DateRangesCompatible(activities, S1, slot) ==
    LET components == {k \in DOMAIN S1 : S1[k][slot] = 1}
        max_end_date == MaxOf({activities[k].t + activities[k].d : k \in components})
        min_begin_date == MinOf({activities[k].t : k \in components})
    IN  max_end_date >= min_begin_date

\* OpenSlots with > for the >= of line 185: a slot is closed one member late.
OpenSlotsLate(R, S1, slot, system) ==
    IF SumOver([k \in DOMAIN S1 |-> S1[k][slot]], DOMAIN S1) > system.resources
    THEN SelectSeq(R, LAMBDA c : c /= slot)
    ELSE R

\* Lines 185-189: the open slots after component i joined `slot`.
OpenSlots(R, S1, slot, system) ==
    IF SumOver([k \in DOMAIN S1 |-> S1[k][slot]], DOMAIN S1) >= system.resources
    THEN SelectSeq(R, LAMBDA c : c /= slot)
    ELSE R

\* Lines 162-197: the matrices S the loop can end with, from component i on
\* with the open slots R and the candidates Q; np.random.randint(0) raises
\* ValueError.
RECURSIVE generate_individual_from(_, _, _, _, _)
generate_individual_from(plan, i, S, R, Q) ==
    IF i >= plan.system.N THEN {[error |-> "none", S |-> S]}
    ELSE IF Len(Q) = 0 THEN {[error |-> "ValueError"]}
    ELSE UNION {
            LET S1 == [S EXCEPT ![i][Q[j]] = 1]
            IN  IF DateRangesCompatible(plan.activities, S1, Q[j])
                THEN LET R1 == OpenSlots(R, S1, Q[j], plan.system)
                     IN  generate_individual_from(plan, i + 1, S1, R1, R1)
                ELSE generate_individual_from(plan, i, S, R, Delete(Q, j)) :
            j \in 1..Len(Q)}

generate_individual(plan) ==
    LET n == plan.system.N
    IN  generate_individual_from(
            plan, 0, [i \in 0..(n - 1) |-> [j \in 0..(n - 1) |-> 0]],
            [k \in 1..n |-> k - 1], [k \in 1..n |-> k - 1])

\* Lines 203-207: row i of S placed in the plane of resource res[i].
Lift(S, res, system) ==
    [i \in DOMAIN S |->
        [j \in DOMAIN S[i] |->
            [r \in 0..(system.resources - 1) |-> IF r = res[i] THEN S[i][j] ELSE 0]]]

generate_individual_with_resources(plan) ==
    UNION {IF o.error = "none"
           THEN {[error |-> "none", x |-> Lift(o.S, res, plan.system)] :
                    res \in [0..(plan.system.N - 1) -> 0..(plan.system.resources - 1)]}
           ELSE {o} :
              o \in generate_individual(plan)}

\* Lines 238-241: every activity executed separately.
Singleton(res, system) ==
    [i \in 0..(system.N - 1) |->
        [j \in 0..(system.N - 1) |->
            [r \in 0..(system.resources - 1) |-> IF j = i /\ r = res[i] THEN 1 ELSE 0]]]

(***************************************************************************)
(* moga.py: the fast non-dominated sort (lines 274-316).  `heap` is the    *)
(* sequence of all Individuals, `population` a list of references.         *)
(***************************************************************************)
\* Line 294: p dominates q.
Dominates(p, q) == p.score[1] < q.score[1] /\ p.score[2] < q.score[2]

\* DominatedBy with >= for the first > of line 297.
DominatedByWeakly(p, q) == p.score[1] >= q.score[1] /\ p.score[2] > q.score[2]

\* Line 297: p is dominated by q.
DominatedBy(p, q) == p.score[1] > q.score[1] /\ p.score[2] > q.score[2]

\* Lines 287-290.
Clean(heap, population) ==
    [id \in DOMAIN heap |->
        IF \E k \in DOMAIN population : population[k] = id
        THEN [heap[id] EXCEPT !.rank = 0, !.dominatorCounter = 0,
                              !.dominatedSolutions = <<>>]
        ELSE heap[id]]

\* Lines 292-302: the loop over p, from position k of the population on;
\* frontier0 is frontiers[0].
RECURSIVE Compare(_, _, _, _)
Compare(heap, population, frontier0, k) ==
    IF k > Len(population) THEN [heap |-> heap, frontier0 |-> frontier0]
    ELSE LET p == population[k]
             dominated == SelectSeq(population, LAMBDA q : Dominates(heap[p], heap[q]))
             counter == Cardinality({m \in DOMAIN population :
                                        DominatedBy(heap[p], heap[population[m]])})
             heap1 == [heap EXCEPT ![p].dominatedSolutions = dominated,
                                   ![p].dominatorCounter = counter,
                                   ![p].rank = IF counter = 0 THEN 1 ELSE @]
         IN  Compare(heap1, population,
                     IF counter = 0 THEN Append(frontier0, p) ELSE frontier0, k + 1)

\* Lines 306-311: the solutions dominated by the members of frontiers[i], in
\* the order the two loops visit them.
RECURSIVE Visits(_, _)
Visits(heap, frontier) ==
    IF frontier = <<>> THEN <<>>
    ELSE heap[Head(frontier)].dominatedSolutions \o Visits(heap, Tail(frontier))

\* Lines 308-311 for every visited q in turn.
RECURSIVE Release(_, _, _, _)
Release(heap, visits, Qnext, i) ==
    IF visits = <<>> THEN [heap |-> heap, Q |-> Qnext]
    ELSE LET q == Head(visits)
             counter == heap[q].dominatorCounter - 1
             heap1 == [heap EXCEPT ![q].dominatorCounter = counter,
                                   ![q].rank = IF counter = 0 THEN i + 2 ELSE @]
         IN  Release(heap1, Tail(visits),
                     IF counter = 0 THEN Append(Qnext, q) ELSE Qnext, i)

\* Lines 304-313: the while loop; frontiers[i] is the last list (i counted
\* from 0).
RECURSIVE NextFrontiers(_, _)
NextFrontiers(heap, frontiers) ==
    IF frontiers[Len(frontiers)] = <<>> THEN [heap |-> heap, frontiers |-> frontiers]
    ELSE LET i == Len(frontiers) - 1
             r == Release(heap, Visits(heap, frontiers[Len(frontiers)]), <<>>, i)
         IN  NextFrontiers(r.heap, Append(frontiers, r.Q))

\* Lines 285-316.
fast_non_dominated_sort(heap, population) ==
    LET c == Compare(Clean(heap, population), population, <<>>, 1)
        n == NextFrontiers(c.heap, <<c.frontier0>>)
        last == n.frontiers[Len(n.frontiers)]
    IN  [heap |-> n.heap,
         frontiers |-> IF last = <<>>
                       THEN SubSeq(n.frontiers, 1, Len(n.frontiers) - 1)
                       ELSE n.frontiers]

(***************************************************************************)
(* MOGA._crowding_distance (not in the sources at hand; from the written   *)
(* specification): distances of a front, and the front by descending       *)
(* distance, ties in any order.                                            *)
(***************************************************************************)
\* Stable ascending sort of a list of references by objective k.
RECURSIVE InsertByScore(_, _, _, _)
InsertByScore(heap, s, id, k) ==
    IF s = <<>> THEN <<id>>
    ELSE IF heap[id].score[k] < heap[Head(s)].score[k] THEN <<id>> \o s
         ELSE <<Head(s)>> \o InsertByScore(heap, Tail(s), id, k)

RECURSIVE SortByScore(_, _, _)
SortByScore(heap, s, k) ==
    IF s = <<>> THEN <<>>
    ELSE InsertByScore(heap, SortByScore(heap, SubSeq(s, 1, Len(s) - 1), k), s[Len(s)], k)

AddDistance(a, b) == IF a = Infinity \/ b = Infinity THEN Infinity ELSE a + b

\* The contribution of objective k to the distance of each member.
ObjectiveDistance(heap, front, k) ==
    LET sorted == SortByScore(heap, front, k)
        m == Len(sorted)
        range == heap[sorted[m]].score[k] - heap[sorted[1]].score[k]
    IN  [id \in {front[n] : n \in DOMAIN front} |->
            LET pos == CHOOSE n \in 1..m : sorted[n] = id
            IN  IF pos = 1 \/ pos = m THEN Infinity
                ELSE IF range = 0 THEN 0
                     ELSE FDiv(heap[sorted[pos + 1]].score[k]
                                 - heap[sorted[pos - 1]].score[k], range)]

CrowdingHeap(heap, front) ==
    LET lf == ObjectiveDistance(heap, front, 1)
        ic == ObjectiveDistance(heap, front, 2)
    IN  [id \in DOMAIN heap |->
            IF \E n \in DOMAIN front : front[n] = id
            THEN [heap[id] EXCEPT !.crowding_distance = AddDistance(lf[id], ic[id])]
            ELSE heap[id]]

\* The orders of the front by descending crowding distance.
CrowdingOrders(heap, front) ==
    {s \in [1..Len(front) -> {front[n] : n \in DOMAIN front}] :
        /\ \A a, b \in 1..Len(front) : a /= b => s[a] /= s[b]
        /\ \A a \in 1..(Len(front) - 1) :
              heap[s[a]].crowding_distance >= heap[s[a + 1]].crowding_distance}

\* Lines 127-134 of MOGA.run: the populations the loop over the fronts can
\* build, from front k on.
\* NewGeneration passing over a front that does not fit whole, to fill the
\* population from the fronts after it.
RECURSIVE NewGenerationWholeFronts(_, _, _, _, _)
NewGenerationWholeFronts(heap, frontiers, k, Pnew, n) ==
    IF k > Len(frontiers) \/ Len(Pnew) = n THEN {[heap |-> heap, P |-> Pnew]}
    ELSE LET heap1 == CrowdingHeap(heap, frontiers[k])
         IN  UNION {IF Len(Pnew) + Len(f) <= n
                    THEN NewGenerationWholeFronts(heap1, frontiers, k + 1, Pnew \o f, n)
                    ELSE IF k = Len(frontiers)
                         THEN {[heap |-> heap1,
                                P |-> Pnew \o SubSeq(f, 1, n - Len(Pnew))]}
                         ELSE NewGenerationWholeFronts(heap1, frontiers, k + 1, Pnew, n) :
                       f \in CrowdingOrders(heap1, frontiers[k])}

RECURSIVE NewGeneration(_, _, _, _, _)
NewGeneration(heap, frontiers, k, Pnew, n) ==
    IF k > Len(frontiers) THEN {[heap |-> heap, P |-> Pnew]}
    ELSE LET heap1 == CrowdingHeap(heap, frontiers[k])
         IN  UNION {IF Len(Pnew) + Len(f) < n
                    THEN NewGeneration(heap1, frontiers, k + 1, Pnew \o f, n)
                    ELSE {[heap |-> heap1, P |-> Pnew \o SubSeq(f, 1, n - Len(Pnew))]} :
                       f \in CrowdingOrders(heap1, frontiers[k])}

(***************************************************************************)
(* The state: the MOGA object and the position of MOGA.run.                *)
(***************************************************************************)
VARIABLES
    init_pop_size,       \* MOGA.init_pop_size
    p_mutation,          \* MOGA.p_mutation
    n_generations,       \* MOGA.n_generations
    plan,                \* MOGA.plan: [activities, system]
    population_history,  \* MOGA.population_history: lists of references
    individuals,         \* the heap: every Individual constructed so far
    P,                   \* run's P
    Q,                   \* run's Q
    fronts,              \* run's fronts
    generation,          \* run's loop variable i
    pc,                  \* where run is
    error,               \* the exception that ended run, or "none"
    group,               \* a Group object: [activities, x, IC]
    generating,          \* generate_individual's locals: [i, S, R, Q]
    parallel,            \* MOGA.parallel
    pool                 \* the Pool of a map or starmap: [tasks, results]

vars == <<init_pop_size, p_mutation, n_generations, plan, population_history,
          individuals, P, Q, fronts, generation, pc, error, group, generating, parallel, pool>>

(***************************************************************************)
(* The inputs.                                                             *)
(***************************************************************************)
\* Components whose phi_star is the cost rate at x_star (h'(0) = 0), then
\* the component of the Newton scenario (alpha 1, beta 2, cp 1, cc 10,
\* phi* 5, x* 1) and one whose optimum lies later than its due date.
ComponentKinds ==
    <<[cp |-> UnitsPerOne, cc |-> UnitsPerOne, alpha |-> UnitsPerOne, beta |-> 2,
       x_star |-> UnitsPerOne, phi_star |-> 2 * UnitsPerOne],
      [cp |-> UnitsPerOne, cc |-> 3 * UnitsPerOne, alpha |-> UnitsPerOne, beta |-> 2,
       x_star |-> UnitsPerOne, phi_star |-> 6 * UnitsPerOne],
      [cp |-> UnitsPerOne, cc |-> 10 * UnitsPerOne, alpha |-> UnitsPerOne, beta |-> 2,
       x_star |-> UnitsPerOne, phi_star |-> 5 * UnitsPerOne],
      [cp |-> UnitsPerOne, cc |-> UnitsPerOne, alpha |-> UnitsPerOne, beta |-> 2,
       x_star |-> UnitsPerOne, phi_star |-> 4 * UnitsPerOne]>>

Dates == {0, 2 * UnitsPerOne, 6 * UnitsPerOne}

Durations == {0, UnitsPerOne}

\* The activity of component i, of kind k, due at t for the duration d.
Activity(i, k, t, d) ==
    [component |-> [idx |-> i, cp |-> ComponentKinds[k].cp, cc |-> ComponentKinds[k].cc,
                    alpha |-> ComponentKinds[k].alpha, beta |-> ComponentKinds[k].beta,
                    x_star |-> ComponentKinds[k].x_star,
                    phi_star |-> ComponentKinds[k].phi_star],
     t |-> t, d |-> d]

\* The planning inputs of run: components of the first two kinds in turn,
\* the first due at 0, one duration for all.
RunActivities(n) ==
    {[i \in 0..(n - 1) |-> Activity(i, 1 + (i % 2), t[i], d)] :
        t \in {t \in [0..(n - 1) -> Dates] : t[0] = 0}, d \in Durations}

\* The planning inputs of a lineage of mutations: any due dates.
LineageActivities(n) ==
    {[i \in 0..(n - 1) |-> Activity(i, 1 + (i % 2), t[i], d)] :
        t \in [0..(n - 1) -> Dates], d \in Durations}

\* The components in series or in parallel between s and t; component i
\* lets i + 1 units of flow through.
Structures(n) ==
    {{<<SourceNode, 0>>, <<n - 1, SinkNode>>} \cup {<<i, i + 1>> : i \in 0..(n - 2)},
     {<<SourceNode, i>> : i \in 0..(n - 1)} \cup {<<i, SinkNode>> : i \in 0..(n - 1)}}

System(n, resources, structure) ==
    LET sys == [N |-> n, resources |-> resources, structure |-> structure,
                capacity |-> [i \in 0..(n - 1) |-> i + 1]]
    IN  [N |-> n, resources |-> resources, structure |-> structure,
         capacity |-> sys.capacity,
         regular_flow |-> maximum_flow_value(sys, 0..(n - 1))]

NoGroup == [activities |-> <<>>, x |-> <<>>, IC |-> 0]

\* No Pool is open.
NoPool == [tasks |-> <<>>, results |-> <<>>]

\* No call of generate_individual is under way.
NotGenerating == [i |-> 0, S |-> <<>>, R |-> <<>>, Q |-> <<>>]

Init ==
    /\ init_pop_size \in 1..MaxPop
    /\ p_mutation \in {0, UnitsPerOne \div 2, UnitsPerOne}
    /\ n_generations \in 0..((MaxIndividuals \div init_pop_size) - 1)
    /\ \E n \in 1..MaxN, resources \in 1..MaxRes :
          \E structure \in Structures(n), activities \in RunActivities(n) :
              plan = [activities |-> activities, system |-> System(n, resources, structure)]
    /\ population_history = <<>>
    /\ individuals = <<>>
    /\ P = <<>>
    /\ Q = <<>>
    /\ fronts = <<>>
    /\ generation = 0
    /\ pc = "run"
    /\ error = "none"
    /\ group = NoGroup
    /\ generating = NotGenerating
    /\ parallel = FALSE
    /\ pool = NoPool

(***************************************************************************)
(* MOGA.run, one action per statement of its body.                         *)
(***************************************************************************)
\* References to the k Individuals appended to a heap of length n.
Refs(n, k) == [m \in 1..k |-> n + m]

\* Lines 117-119: P = generate_initial_population(), appended to the history.
GenerateInitialPopulation ==
    /\ pc = "run"
    /\ ~parallel
    /\ LET sys == plan.system
       IN  \E random \in [1..(init_pop_size - 1) -> generate_individual_with_resources(plan)],
              res \in [0..(sys.N - 1) -> 0..(sys.resources - 1)] :
               IF \E k \in DOMAIN random : random[k].error /= "none"
               THEN /\ pc' = "raised"
                    /\ error' = "ValueError"
                    /\ UNCHANGED <<individuals, P, population_history>>
               ELSE LET population ==
                            [k \in 1..init_pop_size |->
                                Individual(Plan(plan.activities, sys,
                                                IF k < init_pop_size THEN random[k].x
                                                ELSE Singleton(res, sys)))]
                    IN  /\ individuals' = population
                        /\ P' = Refs(0, init_pop_size)
                        /\ population_history' = <<Refs(0, init_pop_size)>>
                        /\ pc' = "loop"
                        /\ UNCHANGED error
    /\ UNCHANGED <<init_pop_size, p_mutation, n_generations, plan, Q, fronts,
                   generation, group, generating, parallel, pool>>

\* Lines 270-271: the lists of offspring of the parents, in parent order; an
\* error of one call ends the list comprehension.
RECURSIVE mutation(_, _, _, _)
mutation(heap, parents, system, p_mut) ==
    IF parents = <<>> THEN {[error |-> "none", offspring |-> <<>>]}
    ELSE UNION {IF o.error /= "none" THEN {[error |-> o.error]}
                ELSE {IF rest.error /= "none" THEN rest
                      ELSE [error |-> "none",
                            offspring |-> <<o.individual>> \o rest.offspring] :
                         rest \in mutation(heap, Tail(parents), system, p_mut)} :
                   o \in mutate(heap[Head(parents)], system, p_mut)}

\* Line 123: Q = self.mutation(P).
Mutation ==
    /\ pc = "loop"
    /\ generation < n_generations
    /\ ~parallel
    /\ \E m \in mutation(individuals, P, plan.system, p_mutation) :
          IF m.error /= "none"
          THEN /\ pc' = "raised"
               /\ error' = m.error
               /\ UNCHANGED <<individuals, Q>>
          ELSE /\ individuals' = individuals \o m.offspring
               /\ Q' = Refs(Len(individuals), Len(P))
               /\ pc' = "sort"
               /\ UNCHANGED error
    /\ UNCHANGED <<init_pop_size, p_mutation, n_generations, plan, population_history,
                   P, fronts, generation, group, generating, parallel, pool>>

\* Line 125: fronts = self.fast_non_dominated_sort(P + Q).
Sort ==
    /\ pc = "sort"
    /\ LET sorted == fast_non_dominated_sort(individuals, P \o Q)
       IN  /\ individuals' = sorted.heap
           /\ fronts' = sorted.frontiers
    /\ pc' = "select"
    /\ UNCHANGED <<init_pop_size, p_mutation, n_generations, plan, population_history,
                   P, Q, generation, error, group, generating, parallel, pool>>

\* Lines 127-137: the new generation, the assertion and the history.
Select ==
    /\ pc = "select"
    /\ \E new \in NewGeneration(individuals, fronts, 1, <<>>, init_pop_size) :
          /\ individuals' = new.heap
          /\ P' = new.P
          /\ IF Len(new.P) = init_pop_size
             THEN /\ population_history' = Append(population_history, new.P)
                  /\ generation' = generation + 1
                  /\ pc' = "loop"
                  /\ UNCHANGED error
             ELSE /\ pc' = "raised"
                  /\ error' = "AssertionError"
                  /\ UNCHANGED <<population_history, generation>>
    /\ UNCHANGED <<init_pop_size, p_mutation, n_generations, plan, Q, fronts, group, generating, parallel, pool>>

\* Line 120: the loop is over, run returns.
Return ==
    /\ pc = "loop"
    /\ generation >= n_generations
    /\ pc' = "done"
    /\ UNCHANGED <<init_pop_size, p_mutation, n_generations, plan, population_history,
                   individuals, P, Q, fronts, generation, error, group, generating, parallel, pool>>

Next == GenerateInitialPopulation \/ Mutation \/ Sort \/ Select \/ Return

Spec == Init /\ [][Next]_vars

(***************************************************************************)
(* A lineage: one Individual of an initial population and the offspring    *)
(* Individual.mutate returns for it, for that offspring, and so on.        *)
(***************************************************************************)
InitLineage ==
    /\ init_pop_size = 1
    /\ p_mutation \in {UnitsPerOne \div 2, UnitsPerOne}
    /\ n_generations = 0
    /\ \E n \in 1..MaxN, resources \in 1..MaxRes :
          \E structure \in Structures(n), activities \in LineageActivities(n) :
              plan = [activities |-> activities, system |-> System(n, resources, structure)]
    /\ \E x \in {o.x : o \in {o \in generate_individual_with_resources(plan) :
                                 o.error = "none"}}
              \cup {Singleton(res, plan.system) :
                       res \in [0..(plan.system.N - 1) -> 0..(plan.system.resources - 1)]} :
          individuals = <<Individual(Plan(plan.activities, plan.system, x))>>
    /\ population_history = <<>>
    /\ P = <<1>>
    /\ Q = <<>>
    /\ fronts = <<>>
    /\ generation = 0
    /\ pc = "lineage"
    /\ error = "none"
    /\ group = NoGroup
    /\ generating = NotGenerating
    /\ parallel = FALSE
    /\ pool = NoPool

\* Individual.mutate on the last Individual of the lineage; generation counts
\* the calls.
Mutate ==
    /\ pc = "lineage"
    /\ generation < MaxLineage
    /\ \E o \in mutate(individuals[1], plan.system, p_mutation) :
          IF o.error /= "none"
          THEN /\ pc' = "raised"
               /\ error' = o.error
               /\ UNCHANGED <<individuals, generation>>
          ELSE /\ individuals' = <<o.individual>>
               /\ generation' = generation + 1
               /\ UNCHANGED <<pc, error>>
    /\ UNCHANGED <<init_pop_size, p_mutation, n_generations, plan, population_history,
                   P, Q, fronts, group, generating, parallel, pool>>

SpecLineage == InitLineage /\ [][Mutate]_vars

(***************************************************************************)
(* The sort on any population of scored Individuals.                       *)
(***************************************************************************)
InitSort ==
    /\ init_pop_size = 1
    /\ p_mutation = 0
    /\ n_generations = 1
    /\ plan = [activities |-> <<>>, system |-> System(1, 1, {})]
    /\ \E n \in 0..MaxSortPop :
          \E score \in [1..n -> (1..MaxScore) \X (1..MaxScore)] :
              /\ individuals = [k \in 1..n |->
                                   Individual([LF |-> score[k][1], IC |-> score[k][2]])]
              /\ P = [k \in 1..n |-> k]
    /\ population_history = <<>>
    /\ Q = <<>>
    /\ fronts = <<>>
    /\ generation = 0
    /\ pc = "sort"
    /\ error = "none"
    /\ group = NoGroup
    /\ generating = NotGenerating
    /\ parallel = FALSE
    /\ pool = NoPool

SpecSort == InitSort /\ [][Sort]_vars

(***************************************************************************)
(* One generation of MOGA.run after the mutation, on any parents P and     *)
(* offspring Q of scored Individuals: the sort, the truncation, the return. *)
(***************************************************************************)
InitSelect ==
    /\ init_pop_size \in 1..MaxSelectPop
    /\ p_mutation = 0
    /\ n_generations = 1
    /\ plan = [activities |-> <<>>, system |-> System(1, 1, {})]
    /\ \E score \in [1..(2 * init_pop_size) -> (1..MaxScore) \X (1..MaxScore)] :
          individuals = [k \in 1..(2 * init_pop_size) |->
                            Individual([LF |-> score[k][1], IC |-> score[k][2]])]
    /\ P = Refs(0, init_pop_size)
    /\ Q = Refs(init_pop_size, init_pop_size)
    /\ population_history = <<Refs(0, init_pop_size)>>
    /\ fronts = <<>>
    /\ generation = 0
    /\ pc = "sort"
    /\ error = "none"
    /\ group = NoGroup
    /\ generating = NotGenerating
    /\ parallel = FALSE
    /\ pool = NoPool

SpecSelect == InitSelect /\ [][Sort \/ Select \/ Return]_vars

(***************************************************************************)
(* MOGA.generate_individual step by step, on any plan: one action per       *)
(* sample of the inner loop (lines 167-196), one for the return (line 197). *)
(***************************************************************************)
\* Durations of either sign, to reach the branch that rejects a slot.
GenerateDurations == {0 - UnitsPerOne, 0, UnitsPerOne}

GenerateActivities(n) ==
    {[i \in 0..(n - 1) |-> Activity(i, 1 + (i % 2), t[i], d[i])] :
        t \in [0..(n - 1) -> Dates], d \in [0..(n - 1) -> GenerateDurations]}

InitGenerate ==
    /\ init_pop_size = 2
    /\ p_mutation = 0
    /\ n_generations = 0
    /\ \E n \in 1..MaxGenerateN, resources \in 1..MaxRes :
          \E activities \in GenerateActivities(n) :
              /\ plan = [activities |-> activities, system |-> System(n, resources, {})]
              \* Lines 159-165: R, S and the first copy Q of R.
              /\ generating = [i |-> 0,
                               S |-> [i \in 0..(n - 1) |-> [j \in 0..(n - 1) |-> 0]],
                               R |-> [k \in 1..n |-> k - 1],
                               Q |-> [k \in 1..n |-> k - 1]]
    /\ population_history = <<>>
    /\ individuals = <<>>
    /\ P = <<>>
    /\ Q = <<>>
    /\ fronts = <<>>
    /\ generation = 0
    /\ pc = "generate"
    /\ error = "none"
    /\ group = NoGroup
    /\ parallel = FALSE
    /\ pool = NoPool

\* Lines 167-196: one pass of the while loop for component i: a slot Q[j] is
\* sampled (np.random.randint(0) raises ValueError), then either committed,
\* with the next component starting from a copy of R (line 165), or deleted
\* from Q.
Sample ==
    /\ pc = "generate"
    /\ generating.i < plan.system.N
    /\ IF Len(generating.Q) = 0
       THEN /\ pc' = "raised"
            /\ error' = "ValueError"
            /\ UNCHANGED generating
       ELSE /\ \E j \in 1..Len(generating.Q) :
                  LET slot == generating.Q[j]
                      S1 == [generating.S EXCEPT ![generating.i][slot] = 1]
                  IN  IF DateRangesCompatible(plan.activities, S1, slot)
                      THEN LET R1 == OpenSlots(generating.R, S1, slot, plan.system)
                           IN  generating' = [i |-> generating.i + 1, S |-> S1,
                                              R |-> R1, Q |-> R1]
                      ELSE generating' = [generating EXCEPT !.Q = Delete(generating.Q, j)]
            /\ UNCHANGED <<pc, error>>
    /\ UNCHANGED <<init_pop_size, p_mutation, n_generations, plan, population_history,
                   individuals, P, Q, fronts, generation, group, parallel, pool>>

\* Line 197: return S.
ReturnS ==
    /\ pc = "generate"
    /\ generating.i >= plan.system.N
    /\ pc' = "generated"
    /\ UNCHANGED <<init_pop_size, p_mutation, n_generations, plan, population_history,
                   individuals, P, Q, fronts, generation, error, group, generating, parallel, pool>>

NextGenerate == Sample \/ ReturnS

\* The call runs on: a step that can be taken is taken.
SpecGenerate == InitGenerate /\ [][NextGenerate]_vars /\ WF_vars(NextGenerate)

(***************************************************************************)
(* The parallel mode: generate_initial_population and mutation of a MOGA    *)
(* built with parallel = True.  The tasks of a Pool finish in any order and *)
(* map and starmap gather the results by the position of the task.          *)
(***************************************************************************)
\* The result of a task that has not finished.
Pending == [error |-> "pending"]

\* Line 199 as a Pool worker calls it: the method takes no argument besides
\* self, and a call with one raises TypeError.
generate_individual_with_resources_call(pl, args) ==
    IF Len(args) /= 0 THEN {[error |-> "TypeError"]}
    ELSE generate_individual_with_resources(pl)

\* The error map and starmap raise again: that of the first failed task.
FirstError(results) ==
    results[CHOOSE k \in DOMAIN results :
                /\ results[k].error /= "none"
                /\ \A m \in 1..(k - 1) : results[m].error = "none"].error

\* A MOGA with parallel = True before generate_initial_population, or before
\* mutation(P) on a population P of Individuals.
InitParallel ==
    /\ init_pop_size \in 1..MaxPop
    /\ p_mutation \in {0, UnitsPerOne \div 2, UnitsPerOne}
    /\ n_generations = 0
    /\ \E n \in 1..MaxN, resources \in 1..MaxRes :
          \E structure \in Structures(n), activities \in RunActivities(n) :
              plan = [activities |-> activities, system |-> System(n, resources, structure)]
    /\ \/ /\ pc = "generate_initial_population"
          /\ individuals = <<>>
          /\ P = <<>>
       \/ /\ pc = "mutation"
          /\ \E random \in [1..(init_pop_size - 1) ->
                                {o \in generate_individual_with_resources(plan) :
                                    o.error = "none"}],
                res \in [0..(plan.system.N - 1) -> 0..(plan.system.resources - 1)] :
                individuals = [k \in 1..init_pop_size |->
                                  Individual(Plan(plan.activities, plan.system,
                                                  IF k < init_pop_size THEN random[k].x
                                                  ELSE Singleton(res, plan.system)))]
          /\ P = Refs(0, init_pop_size)
    /\ population_history = <<>>
    /\ Q = <<>>
    /\ fronts = <<>>
    /\ generation = 0
    /\ error = "none"
    /\ group = NoGroup
    /\ generating = NotGenerating
    /\ parallel = TRUE
    /\ pool = NoPool

\* Lines 218-223: pool.map(self.generate_individual_with_resources,
\* range(self.init_pop_size - 1)) hands every element of the range to a task.
InitialMap ==
    /\ pc = "generate_initial_population"
    /\ parallel
    /\ pool' = [tasks |-> [k \in 1..(init_pop_size - 1) |-> <<k - 1>>],
                results |-> [k \in 1..(init_pop_size - 1) |-> Pending]]
    /\ pc' = "initial_pool"
    /\ UNCHANGED <<init_pop_size, p_mutation, n_generations, plan, population_history,
                   individuals, P, Q, fronts, generation, error, group, generating,
                   parallel>>

\* A worker runs one task of the map.
InitialTask ==
    /\ pc = "initial_pool"
    /\ \E k \in DOMAIN pool.tasks :
          /\ pool.results[k] = Pending
          /\ \E o \in generate_individual_with_resources_call(plan, pool.tasks[k]) :
                pool' = [pool EXCEPT !.results[k] = o]
    /\ UNCHANGED <<init_pop_size, p_mutation, n_generations, plan, population_history,
                   individuals, P, Q, fronts, generation, pc, error, group, generating,
                   parallel>>

\* The map returns or raises, and lines 227-251 build the population.
InitialGather ==
    /\ pc = "initial_pool"
    /\ \A k \in DOMAIN pool.tasks : pool.results[k] /= Pending
    /\ IF \E k \in DOMAIN pool.results : pool.results[k].error /= "none"
       THEN /\ pc' = "raised"
            /\ error' = FirstError(pool.results)
            /\ UNCHANGED <<individuals, P>>
       ELSE /\ \E res \in [0..(plan.system.N - 1) -> 0..(plan.system.resources - 1)] :
                  individuals' = [k \in 1..init_pop_size |->
                                     Individual(Plan(plan.activities, plan.system,
                                                     IF k < init_pop_size
                                                     THEN pool.results[k].x
                                                     ELSE Singleton(res, plan.system)))]
            /\ P' = Refs(0, init_pop_size)
            /\ pc' = "mutation"
            /\ UNCHANGED error
    /\ pool' = NoPool
    /\ UNCHANGED <<init_pop_size, p_mutation, n_generations, plan, population_history,
                   Q, fronts, generation, group, generating, parallel>>

\* Lines 263-268: pool.starmap(Individual.mutate, zip(parents,
\* repeat(self.p_mutation, len(parents)))).
MutationStarmap ==
    /\ pc = "mutation"
    /\ parallel
    /\ pool' = [tasks |-> [k \in DOMAIN P |-> <<P[k], p_mutation>>],
                results |-> [k \in DOMAIN P |-> Pending]]
    /\ pc' = "mutation_pool"
    /\ UNCHANGED <<init_pop_size, p_mutation, n_generations, plan, population_history,
                   individuals, P, Q, fronts, generation, error, group, generating,
                   parallel>>

\* A worker runs one task of the starmap: Individual.mutate(parent, p_mutation).
MutateTask ==
    /\ pc = "mutation_pool"
    /\ \E k \in DOMAIN pool.tasks :
          /\ pool.results[k] = Pending
          /\ \E o \in mutate(individuals[pool.tasks[k][1]], plan.system, pool.tasks[k][2]) :
                pool' = [pool EXCEPT !.results[k] = o]
    /\ UNCHANGED <<init_pop_size, p_mutation, n_generations, plan, population_history,
                   individuals, P, Q, fronts, generation, pc, error, group, generating,
                   parallel>>

\* The starmap returns the offspring by the position of their task, or raises.
MutationGather ==
    /\ pc = "mutation_pool"
    /\ \A k \in DOMAIN pool.tasks : pool.results[k] /= Pending
    /\ IF \E k \in DOMAIN pool.results : pool.results[k].error /= "none"
       THEN /\ pc' = "raised"
            /\ error' = FirstError(pool.results)
            /\ UNCHANGED <<individuals, Q>>
       ELSE /\ individuals' = individuals
                                  \o [k \in DOMAIN pool.results |-> pool.results[k].individual]
            /\ Q' = Refs(Len(individuals), Len(pool.results))
            /\ pc' = "mutated"
            /\ UNCHANGED error
    /\ pool' = NoPool
    /\ UNCHANGED <<init_pop_size, p_mutation, n_generations, plan, population_history,
                   P, fronts, generation, group, generating, parallel>>

NextParallel ==
    \/ InitialMap
    \/ InitialTask
    \/ InitialGather
    \/ MutationStarmap
    \/ MutateTask
    \/ MutationGather

SpecParallel == InitParallel /\ [][NextParallel]_vars

(***************************************************************************)
(* Group.minimize on any group.                                            *)
(***************************************************************************)
InitGroup ==
    /\ init_pop_size = 1
    /\ p_mutation = 0
    /\ n_generations = 0
    /\ plan = [activities |-> <<>>, system |-> System(1, 1, {})]
    /\ population_history = <<>>
    /\ individuals = <<>>
    /\ P = <<>>
    /\ Q = <<>>
    /\ fronts = <<>>
    /\ generation = 0
    /\ pc = "group"
    /\ error = "none"
    /\ \E n \in 1..MaxGroup :
          \E k \in [1..n -> DOMAIN ComponentKinds], t \in [1..n -> Dates] :
              group = [activities |-> [i \in 1..n |-> Activity(i - 1, k[i], t[i], 0)],
                       x |-> <<>>, IC |-> 0]
    /\ generating = NotGenerating
    /\ parallel = FALSE
    /\ pool = NoPool

\* Group.minimize (lines 98-107).
Minimize ==
    /\ pc = "group"
    /\ group' = minimize(group.activities)
    /\ pc' = "minimized"
    /\ UNCHANGED <<init_pop_size, p_mutation, n_generations, plan, population_history,
                   individuals, P, Q, fronts, generation, error, generating, parallel, pool>>

SpecGroup == InitGroup /\ [][Minimize]_vars

(***************************************************************************)
(* Properties.                                                             *)
(***************************************************************************)
Tensor(id) == individuals[id].plan.grouping_structure

Components == 0..(plan.system.N - 1)

Resources == 0..(plan.system.resources - 1)

\* The components of slot j of the tensor x.
Members(x, j) == {i \in DOMAIN x : \E r \in DOMAIN x[i][j] : x[i][j][r] /= 0}

\* The activities `activities` of the members of every non-empty slot of x
\* have windows [t - x*, t + x*] with a common point.
WindowsIntersect(x, activities) ==
    \A j \in DOMAIN x[0] :
        \A a, b \in Members(x, j) :
            activities[a].t + activities[a].component.x_star
                >= activities[b].t - activities[b].component.x_star

\* C1: when run has ended, population_history has n_generations + 1 entries
\* of init_pop_size Individuals each.
C1_HistoryComplete ==
    pc \in {"done", "raised"} =>
        /\ Len(population_history) = n_generations + 1
        /\ \A g \in DOMAIN population_history :
              Len(population_history[g]) = init_pop_size

\* C1, for the runs that return: the same, and every entry holds
\* init_pop_size Individuals whenever it is appended.
C1_HistoryCompleteOnReturn ==
    /\ pc = "done" => Len(population_history) = n_generations + 1
    /\ \A g \in DOMAIN population_history : Len(population_history[g]) = init_pop_size

\* C2: row-sum one: in the tensor of every Individual of an initial
\* population or of a lineage of mutations, every component has exactly one
\* pair (slot, resource) set to 1, and nothing else set.
C2_RowSumOne ==
    \A id \in DOMAIN individuals :
        \A i \in Components :
            /\ Cardinality({jr \in Components \X Resources :
                               Tensor(id)[i][jr[1]][jr[2]] = 1}) = 1
            /\ \A jr \in Components \X Resources : Tensor(id)[i][jr[1]][jr[2]] \in {0, 1}

\* An Individual after two mutations, one of which moved a component out of
\* the slot of its own index into a slot shared with another component.
C2_Witness ==
    /\ pc = "lineage"
    /\ generation >= 2
    /\ \E j \in Components : Cardinality(Members(Tensor(1), j)) >= 2

\* C3: resource capacity: no slot of any Individual holds more than
\* system.resources components.
C3_ResourceCapacity ==
    \A id \in DOMAIN individuals :
        \A j \in Components :
            Cardinality({ir \in Components \X Resources : Tensor(id)[ir[1]][j][ir[2]] = 1})
                <= plan.system.resources

\* A mutated Individual with fewer resources than components and a slot
\* filled to the capacity.
C3_Witness ==
    /\ pc = "lineage"
    /\ generation >= 1
    /\ plan.system.resources < plan.system.N
    /\ \E j \in Components : Cardinality(Members(Tensor(1), j)) = plan.system.resources

\* C4: group feasibility: the activities a Plan is given, grouped by the
\* slots of its tensor, form feasible groups, for the Individuals of the
\* initial population (built from the plan's activities) and for the
\* offspring of a mutation (built from the parent's activities).
C4_GroupsFeasible ==
    /\ population_history /= <<>> =>
          \A k \in DOMAIN population_history[1] :
              WindowsIntersect(Tensor(population_history[1][k]), plan.activities)
    /\ pc = "sort" =>
          \A k \in DOMAIN Q :
              WindowsIntersect(Tensor(Q[k]), individuals[P[k]].plan.activities)

\* C4, for the offspring alone.
C4_OffspringFeasible ==
    pc = "sort" =>
        \A k \in DOMAIN Q : WindowsIntersect(Tensor(Q[k]), individuals[P[k]].plan.activities)

\* C5: a mutation that is sure to select component 0 of a parent (p_mutation
\* is 1) while no slot passes the capacity and the feasibility filter for it
\* returns the offspring, with component 0 where it was.
C5_EmptyCandidatesKeepSlot ==
    [][(/\ pc = "loop"
        /\ generation < n_generations
        /\ p_mutation = UnitsPerOne
        /\ \E k \in DOMAIN P :
              FeasibleGroups(Tensor(P[k]), 0, individuals[P[k]], plan.system) = {})
       => (/\ pc' = "sort"
           /\ \A k \in DOMAIN P :
                 FeasibleGroups(Tensor(P[k]), 0, individuals[P[k]], plan.system) = {}
                     => individuals'[Q'[k]].plan.grouping_structure[0] = Tensor(P[k])[0])]_vars

\* C6: the fronts partition the population; the first front is the set of
\* the Individuals no other strictly dominates; every member of a later
\* front is dominated by a member of the front before; nobody is dominated
\* by a member of its own or a later front; the members of the k-th front
\* (k from 1) have rank k; and A (1,2), B (2,1), C (3,3) give {A,B}, {C}.
StrictlyBetter(a, b) ==
    individuals[a].score[1] < individuals[b].score[1]
        /\ individuals[a].score[2] < individuals[b].score[2]

FrontSet(k) == {fronts[k][n] : n \in DOMAIN fronts[k]}

C6_SortCorrect ==
    pc = "select" =>
        /\ \A id \in DOMAIN individuals :
              Cardinality({<<k, n>> \in (DOMAIN fronts) \X (DOMAIN individuals) :
                              n \in DOMAIN fronts[k] /\ fronts[k][n] = id}) = 1
        /\ \A k \in DOMAIN fronts : fronts[k] /= <<>>
        /\ fronts /= <<>> =>
              FrontSet(1) = {id \in DOMAIN individuals :
                                ~\E other \in DOMAIN individuals : StrictlyBetter(other, id)}
        /\ \A k \in DOMAIN fronts : \A id \in FrontSet(k) :
              /\ k > 1 => \E other \in FrontSet(k - 1) : StrictlyBetter(other, id)
              /\ \A m \in k..Len(fronts) : \A other \in FrontSet(m) :
                    ~StrictlyBetter(other, id)
              /\ individuals[id].rank = k
        /\ [k \in DOMAIN individuals |-> individuals[k].score]
               = <<(<<1, 2>>), (<<2, 1>>), (<<3, 3>>)>>
              => fronts = <<(<<1, 2>>), (<<3>>)>>

\* The sort has run on A (1,2), B (2,1), C (3,3).
C6_Witness ==
    /\ pc = "select"
    /\ [k \in DOMAIN individuals |-> individuals[k].score]
           = <<(<<1, 2>>), (<<2, 1>>), (<<3, 3>>)>>

\* C7: rank positivity: when run has returned, every Individual of every
\* entry of population_history has rank >= 1.
C7_RankPositive ==
    pc = "done" =>
        \A g \in DOMAIN population_history : \A k \in DOMAIN population_history[g] :
            individuals[population_history[g][k]].rank >= 1

\* C8: with p_mutation = 0 no component is selected, the offspring's Plan is
\* rebuilt from the parent's tensor and activities, and every offspring has
\* the score of its parent.
C8_ReconstructionKeepsScore ==
    (pc = "sort" /\ p_mutation = 0) =>
        \A k \in DOMAIN Q : individuals[Q[k]].score = individuals[P[k]].score

\* C9: when minimize has returned, its last two iterates differ by at most
\* the tolerance 1e-3 in absolute value.
C9_ConvergedOnReturn ==
    pc = "minimized" =>
        Abs(group.x[Len(group.x) - 1] - group.x[Len(group.x)]) <= Tolerance

\* C10: the Plan of an Individual all of whose activities last d = 0 has
\* LF = 0.
C10_ZeroDurationZeroLF ==
    \A id \in DOMAIN individuals :
        (\A i \in Components : individuals[id].plan.activities[i].d = 0)
            => individuals[id].plan.LF = 0

\* A mutated Individual with activities of duration 0 at two dates, the
\* earlier one after time 0 or before it.
C10_Witness ==
    /\ pc = "lineage"
    /\ generation >= 1
    /\ \A i \in Components : individuals[1].plan.activities[i].d = 0
    /\ \E a, b \in Components :
          individuals[1].plan.activities[a].t < individuals[1].plan.activities[b].t

\* The front (counted from 1) that holds the Individual id.
FrontOf(id) == CHOOSE k \in DOMAIN fronts : id \in FrontSet(k)

\* C11: the population kept by a generation is built front-major from the
\* fronts of P + Q: it has init_pop_size distinct members of the fronts; a
\* member of a front is kept only if every member of the fronts before is;
\* the kept members stand in front order, and within a front by descending
\* crowding distance; and of the front that is cut, no member left out has a
\* larger crowding distance than a member kept.
C11_FrontMajorTruncation ==
    /\ error /= "AssertionError"
    /\ (pc \in {"loop", "done"} /\ generation >= 1) =>
          /\ Len(P) = init_pop_size
          /\ \A a, b \in DOMAIN P : a /= b => P[a] /= P[b]
          /\ \A a \in DOMAIN P : \E k \in DOMAIN fronts : P[a] \in FrontSet(k)
          /\ \A a \in DOMAIN P : \A k \in 1..(FrontOf(P[a]) - 1) :
                FrontSet(k) \subseteq {P[b] : b \in DOMAIN P}
          /\ \A a, b \in DOMAIN P : a < b =>
                /\ FrontOf(P[a]) <= FrontOf(P[b])
                /\ FrontOf(P[a]) = FrontOf(P[b]) =>
                      individuals[P[a]].crowding_distance
                          >= individuals[P[b]].crowding_distance
          /\ \A a \in DOMAIN P : \A id \in FrontSet(FrontOf(P[a])) :
                id \notin {P[b] : b \in DOMAIN P} =>
                    individuals[id].crowding_distance
                        <= individuals[P[a]].crowding_distance

\* A generation whose truncation kept a whole front and cut the next one.
C11_Witness ==
    /\ pc = "loop"
    /\ generation >= 1
    /\ Len(fronts) >= 2
    /\ FrontSet(1) \subseteq {P[b] : b \in DOMAIN P}
    /\ \E id \in FrontSet(2) : id \in {P[b] : b \in DOMAIN P}
    /\ \E id \in FrontSet(2) : id \notin {P[b] : b \in DOMAIN P}

\* Every activity of the plan has a duration d >= 0.
DurationsNonNegative == \A i \in Components : plan.activities[i].d >= 0

\* The number of components in slot j of the matrix S.
SlotCount(S, j) == Cardinality({i \in DOMAIN S : S[i][j] = 1})

\* C12: generate_individual on a plan with N >= 1, resources >= 1 and all
\* durations d >= 0 terminates; whenever it samples, the candidate list Q is
\* not empty (no error is raised); the components before i are committed to
\* exactly one slot each and the others to none; and the open slots R are
\* exactly the slots with fewer than system.resources members.
C12_GenerateTerminates ==
    DurationsNonNegative =>
        /\ [](/\ error = "none"
              /\ (pc = "generate" /\ generating.i < plan.system.N)
                     => Len(generating.Q) >= 1
              /\ \A i \in Components :
                    Cardinality({j \in Components : generating.S[i][j] = 1})
                        = IF i < generating.i THEN 1 ELSE 0
              /\ {generating.R[k] : k \in DOMAIN generating.R}
                     = {j \in Components : SlotCount(generating.S, j) < plan.system.resources})
        /\ <>(pc = "generated")

\* generate_individual has returned a matrix with a slot filled to the
\* capacity, hence removed from R, and more components than resources.
C12_Witness ==
    /\ pc = "generated"
    /\ DurationsNonNegative
    /\ plan.system.resources < plan.system.N
    /\ \E j \in Components : SlotCount(generating.S, j) = plan.system.resources
    /\ Len(generating.R) < plan.system.N

\* The offspring at position k of Q is a mutation of the parent at position
\* k of P.
OffspringOfParents ==
    /\ Len(Q) = Len(P)
    /\ \A k \in DOMAIN Q :
          individuals[Q[k]] \in {o.individual :
                                    o \in {o \in mutate(individuals[P[k]], plan.system,
                                                         p_mutation) : o.error = "none"}}

\* C13: with parallel = True, generate_initial_population returns
\* init_pop_size Individuals (its Pool raises nothing), and mutation(P)
\* returns |P| offspring, the k-th of them the mutation of the k-th parent,
\* in whatever order the tasks of the Pool finish.
C13_ParallelSameShape ==
    /\ parallel => ~(pc = "raised" /\ error = "TypeError")
    /\ (parallel /\ pc \in {"mutation", "mutation_pool", "mutated"})
          => Len(P) = init_pop_size
    /\ (parallel /\ pc = "mutated") => OffspringOfParents

\* C13, for mutation alone: whenever the starmap returns, the offspring
\* stand in the order of their parents.
C13_OffspringInParentOrder ==
    (parallel /\ pc = "mutated") => OffspringOfParents

====
